---- MODULE Spec2Model ----
(***************************************************************************)
(* A model of the supermarket inventory canister (src/src/lib.rs): the     *)
(* SupermarketManager held in INVENTORY_MANAGER, its HashMap of items, its *)
(* Vec of log strings, and the five #[update]/#[query] entry points.       *)
(***************************************************************************)
EXTENDS Integers, Sequences, FiniteSets, TLC

\* ------------------------------------------------------------------ bounds
\* MaxCalls caps the number of write requests, and so the length of the log,
\* which the program itself never caps.
MaxId == 2
MaxQty == 1
MaxTime == 1
MaxCalls == 3

\* The values the requests are drawn from. No operation does arithmetic on
\* an id, a quantity, a price or a date, so their widths (u32, f64, u64) play
\* no part; a price stands for one f64 bit pattern.
Ids == 1..MaxId
Quantities == 0..MaxQty
Times == 0..MaxTime
Names == {"Milk", "Bread"}
Prices == {25, 30}
Expirations == {7, 9}

\* ------------------------------------------------------------------ state
VARIABLES
    items,   \* SupermarketManager.items : HashMap<u32, InventoryItem>
    logs,    \* SupermarketManager.logs  : Vec<String>
    calls,   \* history: the write requests dispatched so far, in call order
    call,    \* history: the request dispatched last
    ret,     \* the value the last request returned
    reads,   \* history: the instants OffsetDateTime::now_utc() returned
    borrow,  \* the borrow flag of the RefCell in INVENTORY_MANAGER
    pc       \* where the request being executed stands ("idle": none is)

vars == <<items, logs, calls, call, ret, reads, borrow, pc>>

\* struct InventoryItem
InventoryItem ==
    [id : Ids, name : Names, quantity : Quantities, price : Prices,
     expiration_date : Expirations]

\* Option<T>: None is the empty sequence, Some(x) the one-element sequence.
None == <<>>
Some(x) == <<x>>

\* The unit value () returned by the three #[update] entry points.
Unit == <<>>

\* ------------------------------------------------------ HashMap operations
\* Variant: entry(k).or_insert(v), which keeps a value already stored at k.
HashMapInsert_KeepExisting(m, k, v) ==
    [x \in (DOMAIN m) \cup {k} |-> IF x \in DOMAIN m THEN m[x] ELSE v]

\* HashMap::insert: the value at k is v afterwards, other keys untouched.
HashMapInsert(m, k, v) ==
    [x \in (DOMAIN m) \cup {k} |-> IF x = k THEN v ELSE m[x]]

\* Variant: HashMap::clear, which drops every key.
HashMapRemove_Clear(m, k) ==
    [x \in {} |-> m[x]]

\* HashMap::remove: the key is gone afterwards, other keys untouched.
HashMapRemove(m, k) ==
    [x \in (DOMAIN m) \ {k} |-> m[x]]

\* HashMap::get
HashMapGet(m, k) ==
    IF k \in DOMAIN m THEN Some(m[k]) ELSE None

\* ------------------------------------------------------------- log strings
\* A string is modelled as the sequence of its tokens.
\* now.format(&Rfc3339): the instant t rendered as text.
Rfc3339(t) == <<"T", t, "Z">>

\* Variant: a fixed instant (OffsetDateTime::UNIX_EPOCH) instead of now_utc().
get_current_time_Epoch(now) == Rfc3339(0)

\* SupermarketManager::get_current_time, where now is the instant
\* OffsetDateTime::now_utc() reads off the wall clock in this call.
get_current_time(now) == Rfc3339(now)

\* format!("Item {} added at {}", id, time)
FormatAdded(id, time) == <<"Item", id, "added at">> \o time

\* Variant: the two arguments of the format string in the wrong order.
FormatUpdated_Swapped(id, quantity, time) ==
    <<"Item", quantity, "quantity updated to", id, "at">> \o time

\* format!("Item {} quantity updated to {} at {}", id, quantity, time)
FormatUpdated(id, quantity, time) ==
    <<"Item", id, "quantity updated to", quantity, "at">> \o time

\* format!("Item {} removed at {}", id, time)
FormatRemoved(id, time) == <<"Item", id, "removed at">> \o time

\* ------------------------------------------------- SupermarketManager impl
\* SupermarketManager::new
Init ==
    /\ items = << >>
    /\ logs = << >>
    /\ calls = << >>
    /\ call = [op |-> "new"]
    /\ ret = Unit
    /\ reads = << >>
    /\ borrow = 0
    /\ pc = "idle"

\* Variant: an id already stored has only its quantity and price refreshed.
add_item_Merge(item, now) ==
    /\ items' = IF item.id \in DOMAIN items
                THEN [items EXCEPT ![item.id].quantity = item.quantity,
                                   ![item.id].price = item.price]
                ELSE HashMapInsert(items, item.id, item)
    /\ logs' = Append(logs, FormatAdded(item.id, get_current_time(now)))

\* Variant: logs.insert(0, log) instead of logs.push(log).
add_item_LogFront(item, now) ==
    /\ items' = HashMapInsert(items, item.id, item)
    /\ logs' = <<FormatAdded(item.id, get_current_time(now))>> \o logs

\* Variant: the log entry is pushed only when the id was not stored yet.
add_item_LogOnlyIfNew(item, now) ==
    /\ items' = HashMapInsert(items, item.id, item)
    /\ logs' = IF item.id \in DOMAIN items
               THEN logs
               ELSE Append(logs, FormatAdded(item.id, get_current_time(now)))

\* Variant: the record is inserted under item.quantity instead of item.id.
add_item_WrongKey(item, now) ==
    /\ items' = HashMapInsert(items, item.quantity, item)
    /\ logs' = Append(logs, FormatAdded(item.id, get_current_time(now)))

\* SupermarketManager::add_item
add_item(item, now) ==
    /\ items' = HashMapInsert(items, item.id, item)
    /\ logs' = Append(logs, FormatAdded(item.id, get_current_time(now)))

\* SupermarketManager::get_item
get_item(id) == HashMapGet(items, id)

\* Variant: the log entry is pushed outside the `if let`.
update_item_quantity_AlwaysLog(id, quantity, now) ==
    /\ items' = IF HashMapGet(items, id) # None
                THEN [items EXCEPT ![id].quantity = quantity]
                ELSE items
    /\ logs' = Append(logs, FormatUpdated(id, quantity, get_current_time(now)))

\* Variant: the quantity is set but the log entry is never pushed.
update_item_quantity_NoLog(id, quantity, now) ==
    /\ items' = IF HashMapGet(items, id) # None
                THEN [items EXCEPT ![id].quantity = quantity]
                ELSE items
    /\ logs' = logs

\* Variant: a quantity of zero drops the record.
update_item_quantity_RemoveAtZero(id, quantity, now) ==
    IF HashMapGet(items, id) # None
    THEN /\ items' = IF quantity = 0
                     THEN HashMapRemove(items, id)
                     ELSE [items EXCEPT ![id].quantity = quantity]
         /\ logs' = Append(logs, FormatUpdated(id, quantity, get_current_time(now)))
    ELSE UNCHANGED <<items, logs>>

\* Variant: the record is rebuilt around the new quantity and loses its
\* expiration date and price to those of a fresh record.
update_item_quantity_Rebuild(id, quantity, now) ==
    IF HashMapGet(items, id) # None
    THEN /\ items' = [items EXCEPT ![id] =
                         [id |-> id, name |-> items[id].name,
                          quantity |-> quantity, price |-> 25,
                          expiration_date |-> 7]]
         /\ logs' = Append(logs, FormatUpdated(id, quantity, get_current_time(now)))
    ELSE UNCHANGED <<items, logs>>

\* SupermarketManager::update_item_quantity
update_item_quantity(id, quantity, now) ==
    IF HashMapGet(items, id) # None
    THEN /\ items' = [items EXCEPT ![id].quantity = quantity]
         /\ logs' = Append(logs, FormatUpdated(id, quantity, get_current_time(now)))
    ELSE UNCHANGED <<items, logs>>

\* Variant: tests contains_key(&id) and logs, but never removes.
remove_item_KeepsRecord(id, now) ==
    IF HashMapGet(items, id) # None
    THEN /\ items' = items
         /\ logs' = Append(logs, FormatRemoved(id, get_current_time(now)))
    ELSE UNCHANGED <<items, logs>>

\* Variant: the log entry is pushed whether or not a record was removed.
remove_item_AlwaysLog(id, now) ==
    /\ items' = HashMapRemove(items, id)
    /\ logs' = Append(logs, FormatRemoved(id, get_current_time(now)))

\* Variant: the record is removed but the log entry is never pushed.
remove_item_NoLog(id, now) ==
    /\ items' = HashMapRemove(items, id)
    /\ logs' = logs

\* SupermarketManager::remove_item
remove_item(id, now) ==
    IF HashMapGet(items, id) # None
    THEN /\ items' = HashMapRemove(items, id)
         /\ logs' = Append(logs, FormatRemoved(id, get_current_time(now)))
    ELSE UNCHANGED <<items, logs>>

\* SupermarketManager::get_logs
get_logs == logs

\* ------------------------------------------------------------ entry points
\* Each entry point below is one whole handler: the borrow it takes inside
\* INVENTORY_MANAGER.with is dropped before it returns, so borrow and pc are
\* the same after it as before.
\* #[update] add_inventory_item
add_inventory_item(id, name, quantity, price, expiration_date) ==
    LET item == [id |-> id, name |-> name, quantity |-> quantity,
                 price |-> price, expiration_date |-> expiration_date]
    IN /\ Len(calls) < MaxCalls
       /\ \E now \in Times :
             /\ add_item(item, now)
             /\ reads' = Append(reads, now)
       /\ call' = [op |-> "add_item", item |-> item]
       /\ calls' = Append(calls, [op |-> "add_item", id |-> id,
                                  quantity |-> quantity])
       /\ ret' = Unit
       /\ UNCHANGED <<borrow, pc>>

\* #[query] get_inventory_item
get_inventory_item(id) ==
    /\ ret' = get_item(id)
    /\ call' = [op |-> "get_item", id |-> id]
    /\ UNCHANGED <<items, logs, calls, reads, borrow, pc>>

\* #[update] update_inventory_quantity
update_inventory_quantity(id, quantity) ==
    /\ Len(calls) < MaxCalls
    /\ \E now \in Times :
          /\ update_item_quantity(id, quantity, now)
          /\ reads' = IF HashMapGet(items, id) # None
                      THEN Append(reads, now) ELSE reads
    /\ call' = [op |-> "update_item_quantity", id |-> id,
                quantity |-> quantity]
    /\ calls' = Append(calls, [op |-> "update_item_quantity", id |-> id,
                               quantity |-> quantity])
    /\ ret' = Unit
    /\ UNCHANGED <<borrow, pc>>

\* #[update] remove_inventory_item
remove_inventory_item(id) ==
    /\ Len(calls) < MaxCalls
    /\ \E now \in Times :
          /\ remove_item(id, now)
          /\ reads' = IF HashMapGet(items, id) # None
                      THEN Append(reads, now) ELSE reads
    /\ call' = [op |-> "remove_item", id |-> id]
    /\ calls' = Append(calls, [op |-> "remove_item", id |-> id,
                               quantity |-> 0])
    /\ ret' = Unit
    /\ UNCHANGED <<borrow, pc>>

\* Variant: the log is taken (std::mem::take) instead of cloned.
get_inventory_logs_Take ==
    /\ ret' = get_logs
    /\ logs' = << >>
    /\ call' = [op |-> "get_logs"]
    /\ UNCHANGED <<items, calls, reads, borrow, pc>>

\* #[query] get_inventory_logs
get_inventory_logs ==
    /\ ret' = get_logs
    /\ call' = [op |-> "get_logs"]
    /\ UNCHANGED <<items, logs, calls, reads, borrow, pc>>

Next ==
    \/ \E id \in Ids, name \in Names, quantity \in Quantities,
          price \in Prices, expiration_date \in Expirations :
            add_inventory_item(id, name, quantity, price, expiration_date)
    \/ \E id \in Ids : get_inventory_item(id)
    \/ \E id \in Ids, quantity \in Quantities :
            update_inventory_quantity(id, quantity)
    \/ \E id \in Ids : remove_inventory_item(id)
    \/ get_inventory_logs

Spec == Init /\ [][Next]_vars

\* ------------------------------------------- the handlers, one statement
\* at a time. The host runs one request to completion before it dispatches
\* the next (the entry points are plain fns with no await), so a request is
\* dispatched only when pc = "idle". pc then goes "borrow" (about to call
\* borrow()/borrow_mut()), "body" (guard held, about to touch the store),
\* "push" (mapping changed, about to format and push the entry), "release"
\* (method returned, guard about to be dropped) and back to "idle".
\* "trapped" is a panic.
WriteOps == {"add_item", "update_item_quantity", "remove_item"}

\* RefCell::borrow_mut succeeds only on an unborrowed cell; RefCell::borrow
\* succeeds unless the cell is mutably borrowed. The flag is the number of
\* shared borrows, or -1 for a mutable one.
RefCellCanBorrowMut(flag) == flag = 0
RefCellCanBorrow(flag) == flag >= 0

\* The host dispatches add_inventory_item(id, name, quantity, price, date).
call_add_inventory_item(id, name, quantity, price, expiration_date) ==
    /\ pc = "idle"
    /\ Len(calls) < MaxCalls
    /\ call' = [op |-> "add_item",
                item |-> [id |-> id, name |-> name, quantity |-> quantity,
                          price |-> price,
                          expiration_date |-> expiration_date]]
    /\ calls' = Append(calls, [op |-> "add_item", id |-> id,
                               quantity |-> quantity])
    /\ pc' = "borrow"
    /\ UNCHANGED <<items, logs, ret, reads, borrow>>

\* The host dispatches get_inventory_item(id).
call_get_inventory_item(id) ==
    /\ pc = "idle"
    /\ call' = [op |-> "get_item", id |-> id]
    /\ pc' = "borrow"
    /\ UNCHANGED <<items, logs, calls, ret, reads, borrow>>

\* The host dispatches update_inventory_quantity(id, quantity).
call_update_inventory_quantity(id, quantity) ==
    /\ pc = "idle"
    /\ Len(calls) < MaxCalls
    /\ call' = [op |-> "update_item_quantity", id |-> id,
                quantity |-> quantity]
    /\ calls' = Append(calls, [op |-> "update_item_quantity", id |-> id,
                               quantity |-> quantity])
    /\ pc' = "borrow"
    /\ UNCHANGED <<items, logs, ret, reads, borrow>>

\* The host dispatches remove_inventory_item(id).
call_remove_inventory_item(id) ==
    /\ pc = "idle"
    /\ Len(calls) < MaxCalls
    /\ call' = [op |-> "remove_item", id |-> id]
    /\ calls' = Append(calls, [op |-> "remove_item", id |-> id,
                               quantity |-> 0])
    /\ pc' = "borrow"
    /\ UNCHANGED <<items, logs, ret, reads, borrow>>

\* The host dispatches get_inventory_logs().
call_get_inventory_logs ==
    /\ pc = "idle"
    /\ call' = [op |-> "get_logs"]
    /\ pc' = "borrow"
    /\ UNCHANGED <<items, logs, calls, ret, reads, borrow>>

\* inventory.borrow_mut() in the #[update] entry points, inventory.borrow()
\* in the #[query] ones; either panics when the cell cannot be borrowed so.
RefCell_borrow ==
    /\ pc = "borrow"
    /\ IF call.op \in WriteOps
       THEN IF RefCellCanBorrowMut(borrow)
            THEN borrow' = -1 /\ pc' = "body"
            ELSE borrow' = borrow /\ pc' = "trapped"
       ELSE IF RefCellCanBorrow(borrow)
            THEN borrow' = borrow + 1 /\ pc' = "body"
            ELSE borrow' = borrow /\ pc' = "trapped"
    /\ UNCHANGED <<items, logs, calls, call, ret, reads>>

\* Variant: the handler is suspended after the insert (an await before the
\* entry is pushed), and the host goes on to dispatch other requests.
add_item_insert_Yields ==
    /\ pc = "body"
    /\ call.op = "add_item"
    /\ items' = HashMapInsert(items, call.item.id, call.item)
    /\ pc' = "idle"
    /\ UNCHANGED <<logs, calls, call, ret, reads, borrow>>

\* add_item, first statement: self.items.insert(item.id, item.clone())
add_item_insert ==
    /\ pc = "body"
    /\ call.op = "add_item"
    /\ items' = HashMapInsert(items, call.item.id, call.item)
    /\ pc' = "push"
    /\ UNCHANGED <<logs, calls, call, ret, reads, borrow>>

\* update_item_quantity: if let Some(item) = get_mut(&id) { item.quantity = .. }
update_item_quantity_assign ==
    /\ pc = "body"
    /\ call.op = "update_item_quantity"
    /\ IF HashMapGet(items, call.id) # None
       THEN /\ items' = [items EXCEPT ![call.id].quantity = call.quantity]
            /\ pc' = "push"
       ELSE /\ items' = items
            /\ pc' = "release"
    /\ UNCHANGED <<logs, calls, call, ret, reads, borrow>>

\* remove_item: if self.items.remove(&id).is_some()
remove_item_remove ==
    /\ pc = "body"
    /\ call.op = "remove_item"
    /\ IF HashMapGet(items, call.id) # None
       THEN /\ items' = HashMapRemove(items, call.id)
            /\ pc' = "push"
       ELSE /\ items' = items
            /\ pc' = "release"
    /\ UNCHANGED <<logs, calls, call, ret, reads, borrow>>

\* The format! and self.logs.push(log) of the three writing methods.
logs_push ==
    /\ pc = "push"
    /\ \E now \in Times :
          /\ logs' = Append(logs,
                CASE call.op = "add_item" ->
                       FormatAdded(call.item.id, get_current_time(now))
                  [] call.op = "update_item_quantity" ->
                       FormatUpdated(call.id, call.quantity,
                                     get_current_time(now))
                  [] call.op = "remove_item" ->
                       FormatRemoved(call.id, get_current_time(now)))
          /\ reads' = Append(reads, now)
    /\ pc' = "release"
    /\ UNCHANGED <<items, calls, call, ret, borrow>>

\* get_inventory_item: inventory.borrow().get_item(id).cloned()
get_item_cloned ==
    /\ pc = "body"
    /\ call.op = "get_item"
    /\ ret' = get_item(call.id)
    /\ pc' = "release"
    /\ UNCHANGED <<items, logs, calls, call, reads, borrow>>

\* get_inventory_logs: inventory.borrow().get_logs()
get_logs_clone ==
    /\ pc = "body"
    /\ call.op = "get_logs"
    /\ ret' = get_logs
    /\ pc' = "release"
    /\ UNCHANGED <<items, logs, calls, call, reads, borrow>>

\* Variant: the guard is leaked (std::mem::forget) instead of dropped.
RefCell_release_Leaks ==
    /\ pc = "release"
    /\ borrow' = borrow
    /\ ret' = IF call.op \in WriteOps THEN Unit ELSE ret
    /\ pc' = "idle"
    /\ UNCHANGED <<items, logs, calls, call, reads>>

\* The guard (Ref or RefMut) is dropped at the end of the closure, and the
\* entry point returns.
RefCell_release ==
    /\ pc = "release"
    /\ borrow' = IF borrow < 0 THEN 0 ELSE borrow - 1
    /\ ret' = IF call.op \in WriteOps THEN Unit ELSE ret
    /\ pc' = "idle"
    /\ UNCHANGED <<items, logs, calls, call, reads>>

StepNext ==
    \/ \E id \in Ids, name \in Names, quantity \in Quantities,
          price \in Prices, expiration_date \in Expirations :
            call_add_inventory_item(id, name, quantity, price,
                                    expiration_date)
    \/ \E id \in Ids : call_get_inventory_item(id)
    \/ \E id \in Ids, quantity \in Quantities :
            call_update_inventory_quantity(id, quantity)
    \/ \E id \in Ids : call_remove_inventory_item(id)
    \/ call_get_inventory_logs
    \/ RefCell_borrow
    \/ add_item_insert
    \/ update_item_quantity_assign
    \/ remove_item_remove
    \/ logs_push
    \/ get_item_cloned
    \/ get_logs_clone
    \/ RefCell_release

StepSpec == Init /\ [][StepNext]_vars

\* ------------------------------------------------------- reading the log
\* The last entry of a non-empty log.
LastEntry(lg) == lg[Len(lg)]

\* lg2 is lg1 with exactly the entries `more` pushed at its end.
IsPrefix(lg1, lg2) ==
    /\ Len(lg1) <= Len(lg2)
    /\ \A i \in 1..Len(lg1) : lg2[i] = lg1[i]

\* The text e reads "Item {id} added at {timestamp}".
IsAddedEntry(e, id) ==
    /\ Len(e) = 6
    /\ e[1] = "Item" /\ e[2] = id /\ e[3] = "added at"
    /\ e[4] = "T" /\ e[5] \in Times /\ e[6] = "Z"

\* The text e reads "Item {id} quantity updated to {quantity} at {timestamp}".
IsUpdatedEntry(e, id, quantity) ==
    /\ Len(e) = 8
    /\ e[1] = "Item" /\ e[2] = id /\ e[3] = "quantity updated to"
    /\ e[4] = quantity /\ e[5] = "at"
    /\ e[6] = "T" /\ e[7] \in Times /\ e[8] = "Z"

\* The text e reads "Item {id} removed at {timestamp}".
IsRemovedEntry(e, id) ==
    /\ Len(e) = 6
    /\ e[1] = "Item" /\ e[2] = id /\ e[3] = "removed at"
    /\ e[4] = "T" /\ e[5] \in Times /\ e[6] = "Z"

\* ------------------------------------------------------------------ claims
\* C1 (insert-then-get): in every state reached by add_item(item),
\* get_item(item.id) returns Some(item): the same id, name, quantity, price
\* and expiration_date.
C1_InsertThenGet ==
    call.op = "add_item" =>
        /\ get_item(call.item.id) = Some(call.item)
        /\ LET r == get_item(call.item.id)[1]
           IN /\ r.id = call.item.id
              /\ r.name = call.item.name
              /\ r.quantity = call.item.quantity
              /\ r.price = call.item.price
              /\ r.expiration_date = call.item.expiration_date

\* C1 witness: an add_item has just run on a store that already held
\* another change, and the record is there.
C1_Witness ==
    /\ call.op = "add_item"
    /\ Len(calls) >= 2
    /\ get_item(call.item.id) = Some(call.item)

\* C2 (overwrite): add_item(new) on an id that is already stored leaves new,
\* whole, at that id, and the number of stored records does not grow.
C2_Overwrite ==
    [][(call'.op = "add_item" /\ call'.item.id \in DOMAIN items) =>
          /\ call'.item.id \in DOMAIN items'
          /\ items'[call'.item.id] = call'.item
          /\ Cardinality(DOMAIN items') = Cardinality(DOMAIN items)]_vars

\* C2 witness: two add_item calls in a row for one id, with different
\* quantities; the store holds one record, the second one.
C2_Witness ==
    /\ Len(calls) = 2
    /\ calls[1].op = "add_item" /\ calls[2].op = "add_item"
    /\ calls[1].id = calls[2].id
    /\ calls[1].quantity # calls[2].quantity
    /\ call.op = "add_item"
    /\ Cardinality(DOMAIN items) = 1
    /\ items[calls[2].id] = call.item

\* C3 (update on a missing id): update_item_quantity(id, quantity) with id
\* not in the mapping leaves the mapping and the log as they were, so
\* get_logs() is as long as before.
C3_UpdateMissingNoOp ==
    [][(call'.op = "update_item_quantity" /\ call'.id \notin DOMAIN items) =>
          /\ items' = items
          /\ logs' = logs
          /\ Len(get_logs') = Len(get_logs)]_vars

\* C3 witness: an id is added, removed, and then updated: the update found
\* nothing and the log holds the two earlier entries only.
C3_Witness ==
    /\ Len(calls) = 3
    /\ calls[1].op = "add_item"
    /\ calls[2].op = "remove_item" /\ calls[2].id = calls[1].id
    /\ calls[3].op = "update_item_quantity" /\ calls[3].id = calls[1].id
    /\ call.op = "update_item_quantity"
    /\ Len(logs) = 2
    /\ items = << >>

\* C4 (remove then get): remove_item(id) on a stored id leaves get_item(id)
\* absent and pushes exactly one entry, "Item {id} removed at ...".
C4_RemoveThenGet ==
    [][\A id \in Ids :
          (call'.op = "remove_item" /\ call'.id = id /\ id \in DOMAIN items) =>
             /\ get_item(id)' = None
             /\ Len(logs') = Len(logs) + 1
             /\ IsPrefix(logs, logs')
             /\ IsRemovedEntry(LastEntry(logs'), id)]_vars

\* C4 witness: a stored id has just been removed; the log ends with its
\* removal entry and the id is absent.
C4_Witness ==
    /\ call.op = "remove_item"
    /\ Len(logs) >= 2
    /\ IsRemovedEntry(LastEntry(logs), call.id)
    /\ get_item(call.id) = None

\* C5 (remove on a missing id): remove_item(id) with id not in the mapping
\* leaves the mapping and the log as they were; a remove_item(id) right
\* after a remove_item(id) changes nothing.
C5_RemoveMissingNoOp ==
    [][/\ (call'.op = "remove_item" /\ call'.id \notin DOMAIN items) =>
             (items' = items /\ logs' = logs)
       /\ (call.op = "remove_item" /\ call'.op = "remove_item"
             /\ call'.id = call.id) =>
             (items' = items /\ logs' = logs)]_vars

\* C5 witness: add, remove, remove of one id: one removal entry only.
C5_Witness ==
    /\ Len(calls) = 3
    /\ calls[1].op = "add_item"
    /\ calls[2].op = "remove_item" /\ calls[2].id = calls[1].id
    /\ calls[3].op = "remove_item" /\ calls[3].id = calls[1].id
    /\ call.op = "remove_item"
    /\ Len(logs) = 2
    /\ IsRemovedEntry(logs[2], calls[1].id)

\* C6 (append-only): in every step the old log is a prefix of the new log;
\* its length never decreases.
C6_LogAppendOnly ==
    [][IsPrefix(logs, logs') /\ Len(logs') >= Len(logs)]_vars

\* C6 witness: a log of three entries, grown one write at a time.
C6_Witness ==
    /\ Len(logs) = 3
    /\ IsAddedEntry(logs[1], calls[1].id)

\* C7 (every mutation is logged): a step that changes the mapping pushes
\* exactly one entry, and no step pushes more than one.
C7_MutationLogged ==
    [][/\ (items' # items) => (Len(logs') = Len(logs) + 1)
       /\ Len(logs') <= Len(logs) + 1]_vars

\* C7 witness: an update has changed a stored quantity and the log ends
\* with its entry.
C7_Witness ==
    /\ call.op = "update_item_quantity"
    /\ Len(calls) = 2
    /\ calls[1].op = "add_item" /\ calls[1].id = call.id
    /\ calls[1].quantity # call.quantity
    /\ Len(logs) = 2
    /\ IsUpdatedEntry(logs[2], call.id, call.quantity)

\* The entries the write requests cs call for, in call order, on a store
\* whose present ids are `present`: one per add_item, one per
\* update_item_quantity or remove_item made on a present id.
RECURSIVE ExpectedEntries(_, _)
ExpectedEntries(cs, present) ==
    IF cs = << >> THEN << >>
    ELSE LET c == Head(cs)
         IN IF c.op = "add_item"
            THEN <<[kind |-> "added", id |-> c.id, quantity |-> c.quantity]>>
                 \o ExpectedEntries(Tail(cs), present \cup {c.id})
            ELSE IF c.id \notin present
            THEN ExpectedEntries(Tail(cs), present)
            ELSE IF c.op = "update_item_quantity"
            THEN <<[kind |-> "updated", id |-> c.id, quantity |-> c.quantity]>>
                 \o ExpectedEntries(Tail(cs), present)
            ELSE <<[kind |-> "removed", id |-> c.id, quantity |-> c.quantity]>>
                 \o ExpectedEntries(Tail(cs), present \ {c.id})

\* The text e is the entry x calls for.
EntryNames(e, x) ==
    IF x.kind = "added" THEN IsAddedEntry(e, x.id)
    ELSE IF x.kind = "updated" THEN IsUpdatedEntry(e, x.id, x.quantity)
    ELSE IsRemovedEntry(e, x.id)

\* C8 (log ordering): what get_logs() returns lists, in call order, exactly
\* one entry per add_item call and per update_item_quantity / remove_item
\* call made on a present id, each naming its event, its id and (for an
\* update) the new quantity; add(1), update(1), remove(1) on the empty store
\* gives exactly added, quantity updated, removed, all for id 1.
C8_LogOrdering ==
    LET expected == ExpectedEntries(calls, {})
    IN /\ Len(get_logs) = Len(expected)
       /\ \A i \in 1..Len(expected) : EntryNames(get_logs[i], expected[i])
       /\ (/\ Len(calls) = 3
           /\ calls[1].op = "add_item" /\ calls[1].id = 1
           /\ calls[2].op = "update_item_quantity" /\ calls[2].id = 1
           /\ calls[3].op = "remove_item" /\ calls[3].id = 1)
          => /\ Len(get_logs) = 3
             /\ IsAddedEntry(get_logs[1], 1)
             /\ IsUpdatedEntry(get_logs[2], 1, calls[2].quantity)
             /\ IsRemovedEntry(get_logs[3], 1)

\* C8 witness: add(1), update(1), remove(1) have run on the empty store.
C8_Witness ==
    /\ Len(calls) = 3
    /\ calls[1].op = "add_item" /\ calls[1].id = 1
    /\ calls[2].op = "update_item_quantity" /\ calls[2].id = 1
    /\ calls[3].op = "remove_item" /\ calls[3].id = 1
    /\ Len(logs) = 3
    /\ items = << >>

\* C9 (reads are read-only): get_item(id) and get_logs() leave the mapping
\* and the log as they were, and get_logs() right after get_logs() returns
\* the same sequence.
C9_ReadsReadOnly ==
    [][/\ (call'.op \in {"get_item", "get_logs"}) =>
             (items' = items /\ logs' = logs)
       /\ (call.op = "get_logs" /\ call'.op = "get_logs") => (ret' = ret)]_vars

\* C9 witness: get_logs() has returned a log of several entries, and the
\* log is still there.
C9_Witness ==
    /\ call.op = "get_logs"
    /\ Len(ret) >= 2
    /\ logs = ret

\* C10 (quantity round-trip): update_item_quantity(id, q) on a present id
\* leaves the id present with quantity q, for q = 0 too; an id leaves the
\* mapping only in a remove_item call on that id.
C10_QuantityRoundTrip ==
    [][/\ \A id \in Ids :
             (call'.op = "update_item_quantity" /\ call'.id = id
                /\ id \in DOMAIN items) =>
                 /\ get_item(id)' # None
                 /\ get_item(id)'[1].quantity = call'.quantity
       /\ \A k \in DOMAIN items :
             (k \notin DOMAIN items') =>
                 (call'.op = "remove_item" /\ call'.id = k)]_vars

\* C10 witness: a record added with a non-zero quantity has been updated to
\* quantity 0 and is still stored, with quantity 0.
C10_Witness ==
    /\ call.op = "update_item_quantity"
    /\ call.quantity = 0
    /\ Len(calls) = 2
    /\ calls[1].op = "add_item" /\ calls[1].id = call.id
    /\ calls[1].quantity # 0
    /\ get_item(call.id) # None
    /\ get_item(call.id)[1].quantity = 0

\* C12 (add_item always logs): every add_item(item) call, on an absent id,
\* on a present id, and on a store that already holds item itself, pushes
\* exactly one entry, and that entry reads "Item {id} added at ..." in
\* every one of these cases.
C12_AddAlwaysLogs ==
    [][\A id \in Ids :
          (call'.op = "add_item" /\ call'.item.id = id) =>
             /\ Len(logs') = Len(logs) + 1
             /\ IsPrefix(logs, logs')
             /\ IsAddedEntry(LastEntry(logs'), id)]_vars

\* C12 witness: two add_item calls in a row for one id with one quantity:
\* the log holds two "added" entries for it, the store one record.
C12_Witness ==
    /\ Len(calls) = 2
    /\ calls[1].op = "add_item" /\ calls[2].op = "add_item"
    /\ calls[1].id = calls[2].id
    /\ calls[1].quantity = calls[2].quantity
    /\ call.op = "add_item"
    /\ Len(logs) = 2
    /\ IsAddedEntry(logs[1], call.item.id)
    /\ IsAddedEntry(logs[2], call.item.id)
    /\ Cardinality(DOMAIN items) = 1

\* C13 (update touches the quantity only): update_item_quantity on a
\* present id leaves the id, name, price and expiration_date of its record
\* as they were.
C13_UpdateOnlyQuantity ==
    [][\A id \in Ids :
          (call'.op = "update_item_quantity" /\ call'.id = id
             /\ id \in DOMAIN items) =>
             /\ id \in DOMAIN items'
             /\ items'[id].id = items[id].id
             /\ items'[id].name = items[id].name
             /\ items'[id].price = items[id].price
             /\ items'[id].expiration_date = items[id].expiration_date]_vars

\* C13 witness: a record added with name Bread, price 30 and date 9 has had
\* its quantity changed and still carries that name, price and date.
C13_Witness ==
    /\ call.op = "update_item_quantity"
    /\ Len(calls) = 2
    /\ calls[1].op = "add_item" /\ calls[1].id = call.id
    /\ calls[1].quantity # call.quantity
    /\ call.id \in DOMAIN items
    /\ items[call.id].quantity = call.quantity
    /\ items[call.id].name = "Bread"
    /\ items[call.id].price = 30
    /\ items[call.id].expiration_date = 9

\* The id an entry names, and the event it names.
EntryId(e) == e[2]
EntryEvent(e) == e[3]

\* The positions of the entries of lg that name id.
EntriesFor(lg, id) == {i \in 1..Len(lg) : EntryId(lg[i]) = id}

\* The greatest member of a non-empty set of positions.
Latest(S) == CHOOSE i \in S : \A j \in S : j <= i

\* C16 (presence follows the log): for every id, the id is in the mapping
\* if and only if the log has an entry for it and the last entry for it is
\* an "added" or a "quantity updated" entry, not a "removed" one.
C16_PresenceMatchesLog ==
    \A id \in Ids :
        (id \in DOMAIN items) <=>
            /\ EntriesFor(logs, id) # {}
            /\ EntryEvent(logs[Latest(EntriesFor(logs, id))])
                   \in {"added at", "quantity updated to"}

\* C16 witness: one id was added and removed, another added: the first is
\* absent with a "removed" entry last, the second present.
C16_Witness ==
    /\ Len(logs) = 3
    /\ IsAddedEntry(logs[1], 1)
    /\ IsRemovedEntry(logs[2], 1)
    /\ IsAddedEntry(logs[3], 2)
    /\ DOMAIN items = {2}

\* The id a write request was called with.
TargetId(c) == IF c.op = "add_item" THEN c.item.id ELSE c.id

\* C17 (other ids are untouched): an add_item, update_item_quantity or
\* remove_item call on id i leaves every other id j as present or absent as
\* it was, with the same record.
C17_OtherIdsUntouched ==
    [][\A j \in Ids :
          (/\ call'.op \in {"add_item", "update_item_quantity", "remove_item"}
           /\ TargetId(call') # j) =>
             /\ (j \in DOMAIN items') <=> (j \in DOMAIN items)
             /\ (j \in DOMAIN items) => (items'[j] = items[j])]_vars

\* C17 witness: with ids 1 and 2 stored, id 1 has been removed and id 2 is
\* still there.
C17_Witness ==
    /\ call.op = "remove_item" /\ call.id = 1
    /\ Len(logs) = 3
    /\ IsRemovedEntry(logs[3], 1)
    /\ DOMAIN items = {2}

\* C18 (key integrity): every record stored under key k has id k, and a
\* get_item(k) that finds a record returns one whose id is k.
C18_KeyIntegrity ==
    /\ \A k \in DOMAIN items : items[k].id = k
    /\ \A k \in Ids : get_item(k) # None => get_item(k)[1].id = k
    /\ (call.op = "get_item" /\ ret # None) => ret[1].id = call.id

\* C18 witness: get_item(2) has returned a record, of id 2, from a store
\* that holds records for ids 1 and 2.
C18_Witness ==
    /\ call.op = "get_item" /\ call.id = 2
    /\ ret # None
    /\ ret[1].id = 2
    /\ DOMAIN items = {1, 2}

\* The instant an entry's timestamp text stands for (the inverse of
\* Rfc3339 on the last three tokens of the entry).
Timestamp(e) == e[Len(e) - 1]

\* A sequence of instants that never steps back.
NonDecreasing(ts) ==
    \A i, j \in 1..Len(ts) : i <= j => ts[i] <= ts[j]

\* The timestamps along a log.
Timestamps(lg) == [i \in 1..Len(lg) |-> Timestamp(lg[i])]

\* C14 as stated (chronological order): along the log the timestamps never
\* decrease.
C14_TimestampsNonDecreasing ==
    NonDecreasing(Timestamps(logs))

\* C14 as amended: the entries are in call order and the k-th entry
\* carries the k-th reading of the wall clock; so the timestamps along the
\* log never decrease exactly when the readings never did.
C14_TimestampsAreTheReadings ==
    /\ Len(logs) = Len(reads)
    /\ \A i \in 1..Len(logs) :
          /\ Timestamp(logs[i]) = reads[i]
          /\ logs[i][Len(logs[i]) - 2] = "T" /\ logs[i][Len(logs[i])] = "Z"
    /\ NonDecreasing(Timestamps(logs)) <=> NonDecreasing(reads)

\* C14 witness: the wall clock was set back between two logged calls, and
\* the log shows the later entry with the earlier timestamp.
C14_Witness ==
    /\ Len(logs) = 2
    /\ reads = <<1, 0>>
    /\ Timestamp(logs[1]) = 1
    /\ Timestamp(logs[2]) = 0

\* The ids stored after the write requests cs have run to completion on a
\* store whose present ids were `present`.
RECURSIVE PresentAfter(_, _)
PresentAfter(cs, present) ==
    IF cs = << >> THEN present
    ELSE LET c == Head(cs)
         IN IF c.op = "add_item"
            THEN PresentAfter(Tail(cs), present \cup {c.id})
            ELSE IF c.op = "remove_item"
            THEN PresentAfter(Tail(cs), present \ {c.id})
            ELSE PresentAfter(Tail(cs), present)

\* C11 (no error outcome): with every clock reading available, no request
\* panics; when a request has returned, a write has returned () and has
\* either applied its whole effect (mapping and one log entry) or changed
\* nothing, get_logs has returned the log, and get_item has returned the
\* stored record, or absent exactly when the id is not stored: the one
\* signalled miss.
C11_NoErrorOutcome ==
    /\ pc # "trapped"
    /\ pc = "idle" =>
          /\ call.op \in WriteOps => ret = Unit
          /\ call.op = "get_logs" => ret = logs
          /\ call.op = "get_item" =>
                /\ (ret = None) <=> (call.id \notin DOMAIN items)
                /\ (call.id \in DOMAIN items) => ret = Some(items[call.id])
          /\ DOMAIN items = PresentAfter(calls, {})
          /\ Len(logs) = Len(ExpectedEntries(calls, {}))

\* C11 witness: after add, remove and an update of the id just removed
\* (a silent no-op), get_item of that id has returned absent.
C11_Witness ==
    /\ pc = "idle"
    /\ call.op = "get_item"
    /\ ret = None
    /\ Len(calls) = 3
    /\ calls[1].op = "add_item" /\ calls[1].id = call.id
    /\ calls[2].op = "remove_item" /\ calls[2].id = call.id
    /\ calls[3].op = "update_item_quantity" /\ calls[3].id = call.id
    /\ Len(logs) = 2

\* C15 (requests see whole operations): an entry point borrows the store
\* only when no borrow is live, holds it from its first statement to its
\* last, and has dropped it when the next request is dispatched; at that
\* point every mapping change has its log entry.
C15_OperationsAtomic ==
    /\ pc = "borrow" => borrow = 0
    /\ pc \in {"body", "push", "release"} =>
          borrow = (IF call.op \in WriteOps THEN -1 ELSE 1)
    /\ pc = "idle" =>
          /\ borrow = 0
          /\ C8_LogOrdering
          /\ C16_PresenceMatchesLog

\* C15 witness: inside add_item, the record is in the mapping and its log
\* entry is not pushed yet; the store is mutably borrowed.
C15_Witness ==
    /\ pc = "push"
    /\ call.op = "add_item"
    /\ call.item.id \in DOMAIN items
    /\ logs = << >>
    /\ borrow = -1
    /\ ~C16_PresenceMatchesLog
====
